---------------------------- MODULE Spec2Model ----------------------------
(***************************************************************************)
(* p-debounce: the windowed debouncer pDebounce(fn, wait, options) and the *)
(* in-flight coalescer pDebounce.promise(fn, options) of src/index.js,     *)
(* as two state machines over one wrapped callable each.                   *)
(*                                                                         *)
(* A step of the model is one run-to-completion job of the event loop: a   *)
(* call of the wrapped callable, a timer callback, the continuation after  *)
(* an awaited producer settles, an abort event.                            *)
(***************************************************************************)
EXTENDS Integers, Sequences, FiniteSets

\* Bounds: the number of calls made to the debounced callable, and to the
\* coalescing callable.
MaxCalls == 3
MaxPromiseCalls == 4

\* What a call may carry: an argument list and a receiver (`this`).
Inputs == {[args |-> "a1", ctx |-> "t1"], [args |-> "a2", ctx |-> "t2"]}

VARIABLES
    \* ---- pDebounce: options and closure state (src/index.js 1-8)
    before,           \* options.before
    hasSignal,        \* options.signal is given
    leadingValue,     \* let leadingValue
    timeout,          \* let timeout: the handle of the last setTimeout, 0 = undefined
    promiseHandlers,  \* let promiseHandlers: the waiting callers, in call order
    \* ---- the collaborators of pDebounce
    timers,           \* the live (scheduled, not fired, not cleared) timers
    aborted,          \* signal.aborted
    listener,         \* onAbort is registered on the signal for 'abort'
    \* ---- pDebounce: history
    callsD,           \* every call made: its arguments, receiver, path and burst
    invocationsD,     \* every producer invocation: its arguments, receiver, state
    resultD,          \* the state of the promise each call returned
    settleLogD,       \* every resolve()/reject() made on a caller, in order
    bursts,           \* each burst opened: "open", "fired" or "aborted"
    \* ---- pDebounce.promise: options and closure state (src/index.js 90-92)
    after,            \* options.after
    currentPromise,   \* let currentPromise: the chain whose promise it holds, 0 = undefined
    queuedCall,       \* let queuedCall: <<>> = undefined, else <<record>>
    \* ---- pDebounce.promise: the async functions in flight
    chains,           \* each `currentPromise = (async () => {...})()` started
    shared,           \* callers that returned currentPromise, not yet settled by it
    \* ---- pDebounce.promise: history
    callsP,
    invocationsP,
    resultP,
    settleLogP,
    \* ---- the call pDebounce(functionToDebounce, wait, options) itself
    wait,             \* the wait argument: its type and its Number value
    wrapState,        \* "unwrapped", "threw" (TypeError) or "wrapped" (a function was returned)
    \* ---- the call pDebounce.promise(function_, options) itself
    promiseState      \* "unwrapped" or "wrapped" (it validates nothing and always returns)

varsD == <<before, hasSignal, leadingValue, timeout, promiseHandlers, timers,
           aborted, listener, callsD, invocationsD, resultD, settleLogD, bursts>>
varsP == <<after, currentPromise, queuedCall, chains, shared,
           callsP, invocationsP, resultP, settleLogP>>
varsW == <<wait, wrapState, promiseState>>
vars == <<varsD, varsP, varsW>>

----------------------------------------------------------------------------
(* Values *)

\* What a promise holds: pending, or resolved/rejected with a value.
\* A value is named by its kind and, for a producer's value or error, by the
\* invocation that produced it, so that two invocations never yield equal values.
Pending == [st |-> "pending", k |-> "none", inv |-> 0]
Resolved(v) == [st |-> "resolved", k |-> v.k, inv |-> v.inv]
Rejected(v) == [st |-> "rejected", k |-> v.k, inv |-> v.inv]

Undefined == [k |-> "undefined", inv |-> 0]
AbortReason == [k |-> "abort", inv |-> 0]
ValueOf(i) == [k |-> "value", inv |-> i]
ErrorOf(i) == [k |-> "error", inv |-> i]

\* resolve(v)/reject(v) on each caller of cs: a promise settles once, later
\* calls of its resolve/reject change nothing.
SettleAll(res, cs, o) ==
    [c \in DOMAIN res |-> IF c \in cs /\ res[c].st = "pending" THEN o ELSE res[c]]

SeqToSet(s) == {s[k] : k \in DOMAIN s}

\* Mutant of SettleOrder: the handlers are settled from the last one pushed
\* to the first.
SettleOrderReversed(hs) == [k \in 1..Len(hs) |-> hs[Len(hs) + 1 - k]]

\* for (const {resolve} of handlers) / for (const {reject} of handlers): an
\* array is iterated from its first element, the first one pushed, on.
SettleOrder(hs) == hs


----------------------------------------------------------------------------
(* pDebounce(functionToDebounce, wait, options)                            *)

InitD ==
    /\ before \in BOOLEAN
    /\ hasSignal \in BOOLEAN
    /\ leadingValue = Undefined
    /\ timeout = 0
    /\ promiseHandlers = <<>>
    /\ timers = {}
    /\ aborted = FALSE
    /\ listener = FALSE
    /\ callsD = <<>>
    /\ invocationsD = <<>>
    /\ resultD = <<>>
    /\ settleLogD = <<>>
    /\ bursts = <<>>

\* A JavaScript value passed as wait: its typeof, and the Number it is or, for
\* a value of another type, the Number it converts to.
Window(type, number) == [type |-> type, number |-> number]

\* The windows tried: the three non-finite Numbers, values that are no
\* Number (a numeric string, a non-numeric string, undefined), and the finite
\* Numbers zero, negative and fractional.
Windows ==
    {Window("number", "NaN"), Window("number", "Infinity"), Window("number", "-Infinity"),
     Window("string", "100"), Window("string", "NaN"), Window("undefined", "NaN"),
     Window("number", "0"), Window("number", "-100"), Window("number", "1.5")}

NonFinite == {"NaN", "Infinity", "-Infinity"}

\* Mutant of NumberIsFinite: the global isFinite, which converts its argument
\* to a Number first.
GlobalIsFinite(w) == w.number \notin NonFinite

\* Number.isFinite(wait): false for a value that is not a Number, and for NaN
\* and the two infinities.
NumberIsFinite(w) == w.type = "number" /\ w.number \notin NonFinite

\* pDebounce(functionToDebounce, wait, options): throws the TypeError, or
\* creates the closure state and returns the wrapped callable.
Wrap ==
    /\ wrapState = "unwrapped"
    /\ wrapState' = IF ~NumberIsFinite(wait) THEN "threw" ELSE "wrapped"
    /\ UNCHANGED <<wait, promiseState, varsD, varsP>>

\* A wrapped callable made with a window of 100, and a coalescing one.
InitWrapped ==
    /\ wait = Window("number", "100")
    /\ wrapState = "wrapped"
    /\ promiseState = "wrapped"

\* Mutant of AlreadyAborted: the wrapped callable never looks at the signal.
AlreadyAbortedNeverChecked == FALSE

\* options.signal?.throwIfAborted() throws: the signal exists and is aborted.
AlreadyAborted == hasSignal /\ aborted

\* Mutant of ShouldCallNow: with options.before every call invokes the producer.
ShouldCallNowAtEveryCall == before

\* const shouldCallNow = options.before && !timeout
ShouldCallNow == before /\ timeout = 0

\* Mutant of ClearTimeout: the pending timer is left to fire.
ClearTimeoutDoesNothing == timers

\* clearTimeout(timeout): the timer with that handle is no longer live;
\* clearing undefined, a fired or a cleared handle does nothing.
ClearTimeout == {t \in timers : t.id # timeout}

\* The burst a call belongs to: the one of the pending timer, or a new one.
BurstOfCall ==
    IF timeout = 0 THEN Len(bursts) + 1
    ELSE IF \E t \in timers : t.id = timeout
         THEN (CHOOSE t \in timers : t.id = timeout).burst
         ELSE Len(bursts)

\* Mutant of Scheduled: while a timer is pending the new timer keeps the
\* arguments and receiver of the call that scheduled the pending one.
ScheduledKeepsFirstArguments(c, a, x, b) ==
    IF \E t \in timers : t.id = timeout
    THEN LET old == CHOOSE t \in timers : t.id = timeout
         IN  [id |-> c, args |-> old.args, ctx |-> old.ctx, burst |-> b]
    ELSE [id |-> c, args |-> a, ctx |-> x, burst |-> b]

\* setTimeout(async () => {...}, wait): the callback closes over the
\* arguments_ and the `this` of the call that scheduled it. The handle is
\* the number of that call.
Scheduled(c, a, x, b) == [id |-> c, args |-> a, ctx |-> x, burst |-> b]

\* functionToDebounce.apply(this, arguments_): the invocation either throws
\* synchronously or returns something that settles in a later job.
Invocation(a, x, c, kind, b, hs, m) ==
    [args |-> a, ctx |-> x, by |-> c, kind |-> kind, burst |-> b,
     handlers |-> hs, st |-> IF m = "throw" THEN "threw" ELSE "running"]

\* Mutant of ListenerAfterPush: onAbort is never registered.
ListenerNeverAdded(hs) == listener

\* if (options.signal && promiseHandlers.length === 1) addEventListener(...).
\* Adding a listener that is already registered changes nothing.
ListenerAfterPush(hs) == listener \/ (hasSignal /\ Len(hs) = 1)

\* Mutant of ListenerAfterRemove: the timer callback never detaches onAbort.
ListenerKept == listener

\* options.signal?.removeEventListener('abort', onAbort)
ListenerAfterRemove == FALSE

\* The producer invocations that have started and not settled.
RunningD == {i \in DOMAIN invocationsD : invocationsD[i].st = "running"}

\* The call is rejected at once: nothing but its own promise is touched.
CallRejected(c, a, x) ==
    /\ callsD' = Append(callsD, [args |-> a, ctx |-> x, path |-> "aborted", burst |-> 0,
                           sawAborted |-> aborted,
                           arrivedDuring |-> RunningD, timerPending |-> timers # {}])
    /\ resultD' = Append(resultD, Rejected(AbortReason))
    /\ settleLogD' = Append(settleLogD, c)
    /\ UNCHANGED <<leadingValue, timeout, promiseHandlers, timers, listener,
                   invocationsD, bursts>>

\* Mutant of LeadingThrowCaught: nothing catches what the producer throws
\* inside the leading-edge function, and the caller's promise is left pending.
LeadingThrowEscapes(i) == Pending

\* catch (error) { reject(error) } of the leading-edge function, reached
\* inside the call when the producer throws: what the caller's promise holds.
LeadingThrowCaught(i) == Rejected(ErrorOf(i))

\* The leading-edge branch: the producer is invoked inside the call.
CallLeading(c, a, x, b) ==
    \E m \in {"async", "throw"} :
        LET i == Len(invocationsD) + 1 IN
        /\ callsD' = Append(callsD, [args |-> a, ctx |-> x, path |-> "leading", burst |-> b,
                               sawAborted |-> aborted,
                           arrivedDuring |-> RunningD, timerPending |-> timers # {}])
        /\ invocationsD' = Append(invocationsD, Invocation(a, x, c, "leading", b, <<>>, m))
        /\ resultD' = Append(resultD, IF m = "throw" THEN LeadingThrowCaught(i) ELSE Pending)
        /\ settleLogD' = IF m = "throw" THEN Append(settleLogD, c) ELSE settleLogD
        /\ UNCHANGED <<leadingValue, promiseHandlers, listener>>

\* The waiting branch: promiseHandlers.push({resolve, reject}).
CallWaiting(c, a, x, b) ==
    /\ callsD' = Append(callsD, [args |-> a, ctx |-> x, path |-> "waiting", burst |-> b,
                           sawAborted |-> aborted,
                           arrivedDuring |-> RunningD, timerPending |-> timers # {}])
    /\ promiseHandlers' = Append(promiseHandlers, c)
    /\ listener' = ListenerAfterPush(promiseHandlers')
    /\ resultD' = Append(resultD, Pending)
    /\ UNCHANGED <<leadingValue, invocationsD, settleLogD>>

\* The wrapped callable is called with arguments a and receiver x.
Call(a, x) ==
    /\ wrapState = "wrapped"
    /\ Len(callsD) < MaxCalls
    /\ LET c == Len(callsD) + 1
           b == BurstOfCall
       IN  IF AlreadyAborted
           THEN CallRejected(c, a, x)
           ELSE /\ timers' = ClearTimeout \cup {Scheduled(c, a, x, b)}
                /\ timeout' = c
                /\ bursts' = IF b > Len(bursts) THEN Append(bursts, "open") ELSE bursts
                /\ IF ShouldCallNow
                   THEN CallLeading(c, a, x, b)
                   ELSE CallWaiting(c, a, x, b)
    /\ UNCHANGED <<before, hasSignal, aborted>>
    /\ UNCHANGED <<varsP, varsW>>

\* Mutant of CatchOutcome: the catch of the timer callback swallows the
\* error and resolves the callers with undefined.
CatchSwallowsError(i) == Resolved(Undefined)

\* catch (error) { for (const {reject} of currentHandlers) reject(error) }:
\* what the callers of a failed delayed invocation i are settled with.
CatchOutcome(i) == Rejected(ErrorOf(i))

\* Mutant of HandlersToSettle: the callback settles the callers waiting when
\* the producer settles, not only those captured when the timer fired.
HandlersReadAtSettle(inv) == inv.handlers \o promiseHandlers

\* for (const {resolve} of currentHandlers): the callers the timer callback
\* settles are those it captured before it invoked the producer.
HandlersToSettle(inv) == inv.handlers

\* Mutant of TimeoutAfterFire: the timer callback leaves the fired handle in
\* timeout.
TimeoutKeptAfterFire == timeout

\* timeout = undefined, the first statement of the timer callback.
TimeoutAfterFire == 0

\* The timer callback of the live timer t runs, up to its await.
TimerFire(t) ==
    /\ t \in timers
    /\ timers' = timers \ {t}
    /\ timeout' = TimeoutAfterFire
    /\ promiseHandlers' = <<>>
    /\ bursts' = [bursts EXCEPT ![t.burst] = "fired"]
    /\ LET currentHandlers == promiseHandlers
           i == Len(invocationsD) + 1
       IN  IF before
           THEN \* const result = leadingValue: no await, the callback runs to its end
                /\ resultD' = SettleAll(resultD, SeqToSet(currentHandlers), Resolved(leadingValue))
                /\ settleLogD' = settleLogD \o SettleOrder(currentHandlers)
                /\ leadingValue' = Undefined
                /\ listener' = ListenerAfterRemove
                /\ UNCHANGED invocationsD
           ELSE \E m \in {"async", "throw"} :
                /\ invocationsD' = Append(invocationsD,
                       Invocation(t.args, t.ctx, t.id, "delayed", t.burst, currentHandlers, m))
                /\ IF m = "throw"
                   THEN /\ resultD' = SettleAll(resultD, SeqToSet(currentHandlers), CatchOutcome(i))
                        /\ settleLogD' = settleLogD \o SettleOrder(currentHandlers)
                        /\ leadingValue' = Undefined
                        /\ listener' = ListenerAfterRemove
                   ELSE UNCHANGED <<resultD, settleLogD, leadingValue, listener>>
    /\ UNCHANGED <<before, hasSignal, aborted, callsD>>
    /\ UNCHANGED <<varsP, varsW>>

\* The producer's result of invocation i settles and the code awaiting it
\* continues: the rest of the timer callback, or of the leading-edge function.
ProducerSettles(i, ok) ==
    /\ i \in DOMAIN invocationsD
    /\ invocationsD[i].st = "running"
    /\ invocationsD' = [invocationsD EXCEPT ![i].st = IF ok THEN "value" ELSE "error"]
    /\ LET inv == invocationsD[i]
           o == IF ok THEN Resolved(ValueOf(i)) ELSE Rejected(ErrorOf(i))
       IN  IF inv.kind = "delayed"
           THEN /\ resultD' = SettleAll(resultD, SeqToSet(HandlersToSettle(inv)),
                                        IF ok THEN o ELSE CatchOutcome(i))
                /\ settleLogD' = settleLogD \o SettleOrder(HandlersToSettle(inv))
                /\ leadingValue' = Undefined
                /\ listener' = ListenerAfterRemove
           ELSE /\ resultD' = SettleAll(resultD, {inv.by}, o)
                /\ settleLogD' = Append(settleLogD, inv.by)
                /\ leadingValue' = IF ok THEN ValueOf(i) ELSE leadingValue
                /\ UNCHANGED listener
    /\ UNCHANGED <<before, hasSignal, timeout, promiseHandlers, timers, aborted,
                   callsD, bursts>>
    /\ UNCHANGED <<varsP, varsW>>

\* The handlers of the producer invocations 1..n that are still running.
RECURSIVE RunningHandlers(_)
RunningHandlers(n) ==
    IF n = 0 THEN <<>>
    ELSE RunningHandlers(n - 1) \o
         (IF invocationsD[n].st = "running" THEN invocationsD[n].handlers ELSE <<>>)

\* Mutant of AbortTargets: onAbort also rejects the callers whose producer
\* invocation has already started.
AbortTargetsWithRunning == RunningHandlers(Len(invocationsD)) \o promiseHandlers

\* Mutant of AbortTargets: onAbort empties the list without rejecting anybody.
AbortRejectsNobody == <<>>

\* for (const {reject} of promiseHandlers) reject(error): the callers onAbort
\* rejects.
AbortTargets == promiseHandlers

\* Mutant of HandlersAfterAbort: onAbort leaves the rejected callers in the list.
HandlersKeptAfterAbort == promiseHandlers

\* promiseHandlers = [] at the end of the catch of onAbort.
HandlersAfterAbort == <<>>

\* controller.abort(): the signal becomes aborted and dispatches 'abort' to
\* the listeners registered at that moment; onAbort was added with once: true.
Abort ==
    /\ hasSignal
    /\ ~aborted
    /\ aborted' = TRUE
    /\ IF listener
       THEN /\ timers' = ClearTimeout
            /\ timeout' = 0
            /\ resultD' = SettleAll(resultD, SeqToSet(AbortTargets), Rejected(AbortReason))
            /\ settleLogD' = settleLogD \o SettleOrder(AbortTargets)
            /\ promiseHandlers' = HandlersAfterAbort
            /\ listener' = FALSE
            /\ bursts' = IF \E t \in timers : t.id = timeout
                         THEN [bursts EXCEPT ![(CHOOSE t \in timers : t.id = timeout).burst] = "aborted"]
                         ELSE bursts
       ELSE UNCHANGED <<timers, timeout, resultD, settleLogD, promiseHandlers, listener, bursts>>
    /\ UNCHANGED <<before, hasSignal, leadingValue, callsD, invocationsD>>
    /\ UNCHANGED <<varsP, varsW>>


----------------------------------------------------------------------------
(* pDebounce.promise(function_, options)                                   *)

InitP ==
    /\ currentPromise = 0
    /\ queuedCall = <<>>
    /\ chains = <<>>
    /\ shared = {}
    /\ callsP = <<>>
    /\ invocationsP = <<>>
    /\ resultP = <<>>
    /\ settleLogP = <<>>

\* The invocations of the producer that have started and not settled.
Outstanding == {i \in DOMAIN invocationsP : invocationsP[i].st = "running"}

\* The invocation a call arrives during, 0 when none is outstanding.
During == IF Outstanding = {} THEN 0 ELSE CHOOSE i \in Outstanding : TRUE

\* Mutant of Busy: every call starts an invocation of its own.
BusyNever == FALSE

\* if (currentPromise): an async function has been started and its promise
\* has not been cleared by the finally of the call that started it.
Busy == currentPromise # 0

\* function_.apply(context, arguments) for chain k; c is the call whose
\* arguments and d the call whose receiver are passed.
InvocationP(a, x, c, d, kind, k, ws, m) ==
    [args |-> a, ctx |-> x, by |-> c, ctxBy |-> d, kind |-> kind, chain |-> k,
     waiters |-> ws, st |-> IF m = "throw" THEN "threw" ELSE "running"]

\* Mutant of Enqueue: the arguments and receiver are stored only when the
\* queue record is created, so the first queued call's are kept.
EnqueueKeepsFirstArguments(c, a, x) ==
    IF queuedCall = <<>>
    THEN <<[resolvers |-> <<c>>, arguments |-> a, context |-> x, argsBy |-> c, ctxBy |-> c]>>
    ELSE <<[queuedCall[1] EXCEPT !.resolvers = Append(@, c)]>>

\* Mutant of Enqueue: the receiver is stored only when the queue record is
\* created, the arguments at every call.
EnqueueKeepsFirstContext(c, a, x) ==
    IF queuedCall = <<>>
    THEN <<[resolvers |-> <<c>>, arguments |-> a, context |-> x, argsBy |-> c, ctxBy |-> c]>>
    ELSE <<[queuedCall[1] EXCEPT !.resolvers = Append(@, c), !.arguments = a, !.argsBy = c]>>

\* queuedCall ??= {resolvers: []}; queuedCall.arguments = arguments_;
\* queuedCall.context = this; queuedCall.resolvers.push({resolve, reject})
Enqueue(c, a, x) ==
    <<[resolvers |-> Append(IF queuedCall = <<>> THEN <<>> ELSE queuedCall[1].resolvers, c),
       arguments |-> a, context |-> x, argsBy |-> c, ctxBy |-> c]>>

\* Mutant of LoopEntered: a failed first invocation ends the async function
\* before the queued call is processed.
LoopSkippedAfterError(ch) == queuedCall # <<>> /\ ch.initial.st # "rejected"

\* while (queuedCall), in the async function whose chain record is ch.
LoopEntered(ch) == queuedCall # <<>>

\* The async function of chain k from `while (queuedCall)` on, entered with
\* the chains chs, the invocations invs and the callers' promises res: it
\* either takes the queued call and invokes the producer for it, or ends and
\* settles its promise with the outcome of its first invocation.
Drain(chs, k, invs, res, log) ==
    IF ~LoopEntered(chs[k])
    THEN /\ chains' = [chs EXCEPT ![k].phase = "done", ![k].promise = chs[k].initial]
         /\ invocationsP' = invs
         /\ resultP' = res
         /\ settleLogP' = log
         /\ UNCHANGED queuedCall
    ELSE LET call == queuedCall[1]
             i == Len(invs) + 1
         IN  /\ queuedCall' = <<>>
             /\ \E m \in {"async", "throw"} :
                  /\ invocationsP' = Append(invs,
                         InvocationP(call.arguments, call.context, call.argsBy, call.ctxBy,
                                     "queued", k, call.resolvers, m))
                  /\ IF m = "throw"
                     THEN \* the catch rejects the resolvers; the loop test then fails
                          /\ resultP' = SettleAll(res, SeqToSet(call.resolvers), Rejected(ErrorOf(i)))
                          /\ settleLogP' = log \o call.resolvers
                          /\ chains' = [chs EXCEPT ![k].phase = "done",
                                                   ![k].promise = chs[k].initial,
                                                   ![k].resolvers = call.resolvers]
                     ELSE /\ resultP' = res
                          /\ settleLogP' = log
                          /\ chains' = [chs EXCEPT ![k].phase = "followup",
                                                   ![k].resolvers = call.resolvers]

\* return currentPromise
CallShares(c, a, x) ==
    /\ callsP' = Append(callsP, [args |-> a, ctx |-> x, path |-> "shared",
                                 chain |-> currentPromise, during |-> During])
    /\ shared' = shared \cup {[c |-> c, chain |-> currentPromise]}
    /\ resultP' = Append(resultP, Pending)
    /\ UNCHANGED <<currentPromise, queuedCall, chains, invocationsP, settleLogP>>

\* The call is queued: return new Promise(...) that the follow-up settles.
CallQueues(c, a, x) ==
    /\ callsP' = Append(callsP, [args |-> a, ctx |-> x, path |-> "queued",
                                 chain |-> currentPromise, during |-> During])
    /\ queuedCall' = Enqueue(c, a, x)
    /\ resultP' = Append(resultP, Pending)
    /\ UNCHANGED <<currentPromise, chains, shared, invocationsP, settleLogP>>

\* currentPromise = (async () => {...})(): the async function runs inside the
\* call up to its first await, which it reaches unless the producer throws.
CallStarts(c, a, x) ==
    LET k == Len(chains) + 1
        i == Len(invocationsP) + 1
    IN  /\ callsP' = Append(callsP, [args |-> a, ctx |-> x, path |-> "started",
                                     chain |-> k, during |-> During])
        /\ currentPromise' = k
        /\ UNCHANGED shared
        /\ \E m \in {"async", "throw"} :
             LET invs == Append(invocationsP, InvocationP(a, x, c, c, "initial", k, <<>>, m))
                 ch == [starter |-> c, phase |-> "initial", resolvers |-> <<>>,
                        initial |-> IF m = "throw" THEN Rejected(ErrorOf(i)) ELSE Pending,
                        promise |-> Pending, finalised |-> FALSE]
             IN  IF m = "throw"
                 THEN Drain(Append(chains, ch), k, invs, Append(resultP, Pending), settleLogP)
                 ELSE /\ chains' = Append(chains, ch)
                      /\ invocationsP' = invs
                      /\ resultP' = Append(resultP, Pending)
                      /\ UNCHANGED <<queuedCall, settleLogP>>

\* The wrapped callable is called with arguments a and receiver x.
PromiseCall(a, x) ==
    /\ promiseState = "wrapped"
    /\ Len(callsP) < MaxPromiseCalls
    /\ LET c == Len(callsP) + 1
       IN  IF Busy
           THEN IF ~after THEN CallShares(c, a, x) ELSE CallQueues(c, a, x)
           ELSE CallStarts(c, a, x)
    /\ UNCHANGED after
    /\ UNCHANGED <<varsD, varsW>>

\* The producer's result of invocation i settles and the async function
\* awaiting it continues up to its next await or its end.
PromiseProducerSettles(i, ok) ==
    /\ i \in DOMAIN invocationsP
    /\ invocationsP[i].st = "running"
    /\ LET inv == invocationsP[i]
           k == inv.chain
           o == IF ok THEN Resolved(ValueOf(i)) ELSE Rejected(ErrorOf(i))
           invs == [invocationsP EXCEPT ![i].st = IF ok THEN "value" ELSE "error"]
       IN  IF inv.kind = "initial"
           THEN Drain([chains EXCEPT ![k].initial = o], k, invs, resultP, settleLogP)
           ELSE Drain(chains, k, invs,
                      SettleAll(resultP, SeqToSet(chains[k].resolvers), o),
                      settleLogP \o chains[k].resolvers)
    /\ UNCHANGED <<after, currentPromise, shared, callsP>>
    /\ UNCHANGED <<varsD, varsW>>

\* Mutant of PromiseSettled: the finally runs as soon as the first invocation
\* of chain k has settled, while the drain loop may still be running.
PromiseSettledAfterFirstInvocation(k) == chains[k].initial.st # "pending"

\* `await currentPromise` resumes: the async function of chain k has ended.
PromiseSettled(k) == chains[k].phase = "done"

\* try { return await currentPromise } finally { currentPromise = undefined }
\* in the call that started chain k, once the promise of chain k has settled.
PromiseFinally(k) ==
    /\ k \in DOMAIN chains
    /\ PromiseSettled(k)
    /\ ~chains[k].finalised
    /\ currentPromise' = 0
    /\ chains' = [chains EXCEPT ![k].finalised = TRUE]
    /\ resultP' = SettleAll(resultP, {chains[k].starter}, chains[k].promise)
    /\ settleLogP' = Append(settleLogP, chains[k].starter)
    /\ UNCHANGED <<after, queuedCall, shared, callsP, invocationsP>>
    /\ UNCHANGED <<varsD, varsW>>

\* A caller that returned currentPromise settles as that promise did. The
\* await of the starting call was the first to subscribe to the promise, so
\* its finally has run by then.
PromiseShareSettles(s) ==
    /\ s \in shared
    /\ chains[s.chain].finalised
    /\ shared' = shared \ {s}
    /\ resultP' = SettleAll(resultP, {s.c}, chains[s.chain].promise)
    /\ settleLogP' = Append(settleLogP, s.c)
    /\ UNCHANGED <<after, currentPromise, queuedCall, chains, callsP, invocationsP>>
    /\ UNCHANGED <<varsD, varsW>>

----------------------------------------------------------------------------
(* Specifications *)

NextD ==
    \/ \E in \in Inputs : Call(in.args, in.ctx)
    \/ \E t \in timers : TimerFire(t)
    \/ \E i \in DOMAIN invocationsD, ok \in BOOLEAN : ProducerSettles(i, ok)
    \/ Abort

NextP ==
    \/ \E in \in Inputs : PromiseCall(in.args, in.ctx)
    \/ \E i \in DOMAIN invocationsP, ok \in BOOLEAN : PromiseProducerSettles(i, ok)
    \/ \E k \in DOMAIN chains : PromiseFinally(k)
    \/ \E s \in shared : PromiseShareSettles(s)

\* One windowed debouncer, in each setting of its options.
InitDebounce == InitD /\ InitP /\ after = FALSE /\ InitWrapped
SpecDebounce == InitDebounce /\ [][NextD]_vars

\* One in-flight coalescer, in each setting of its option.
InitPromise ==
    /\ InitD /\ before = FALSE /\ hasSignal = FALSE
    /\ InitP /\ after \in BOOLEAN
    /\ InitWrapped
SpecPromise == InitPromise /\ [][NextP]_vars

\* pDebounce called with each of the windows, with a signal and without
\* options.before, and the wrapped callable it returns, if any.
InitWrap ==
    /\ InitD /\ before = FALSE /\ hasSignal = TRUE
    /\ InitP /\ after = FALSE
    /\ wait \in Windows
    /\ wrapState = "unwrapped"
    /\ promiseState = "unwrapped"
NextW == Wrap \/ NextD
SpecWrap == InitWrap /\ [][NextW]_vars

\* One windowed debouncer whose environment keeps its promises: a pending
\* timer fires unless it is cleared, and a producer's promise settles.
FairDebounce ==
    /\ WF_vars(\E t \in timers : TimerFire(t))
    /\ WF_vars(\E i \in DOMAIN invocationsD, ok \in BOOLEAN : ProducerSettles(i, ok))
\* Whether a call settles does not depend on what it passes: here every call
\* passes the same arguments and receiver.
OneInput == CHOOSE in \in Inputs : TRUE
NextDOneInput ==
    \/ Call(OneInput.args, OneInput.ctx)
    \/ \E t \in timers : TimerFire(t)
    \/ \E i \in DOMAIN invocationsD, ok \in BOOLEAN : ProducerSettles(i, ok)
    \/ Abort
SpecDebounceFair == InitDebounce /\ [][NextDOneInput]_vars /\ FairDebounce

\* A program that uses one of the two components: one windowed debouncer
\* with a signal (where the signal is never aborted it behaves as one without)
\* in each setting of options.before, or one in-flight coalescer in each
\* setting of its option.
InitEither ==
    /\ InitD /\ InitP
    /\ wait = Window("number", "100")
    /\ \/ /\ wrapState = "wrapped" /\ promiseState = "unwrapped"
          /\ hasSignal = TRUE
          /\ after = FALSE
       \/ /\ wrapState = "unwrapped" /\ promiseState = "wrapped"
          /\ before = FALSE /\ hasSignal = FALSE
          /\ after \in BOOLEAN
NextEither == NextD \/ NextP
SpecEither == InitEither /\ [][NextEither]_vars


----------------------------------------------------------------------------
(* Properties of pDebounce *)

\* What the promise of a caller attached to invocation i of the debouncer holds.
OutcomeOfD(i) ==
    IF invocationsD[i].st = "running" THEN Pending
    ELSE IF invocationsD[i].st = "value" THEN Resolved(ValueOf(i))
    ELSE Rejected(ErrorOf(i))

BurstCalls(b) == {c \in DOMAIN callsD : callsD[c].burst = b}
DelayedOf(b) == {i \in DOMAIN invocationsD :
                    invocationsD[i].kind = "delayed" /\ invocationsD[i].burst = b}
InvocationsOf(b) == {i \in DOMAIN invocationsD : invocationsD[i].burst = b}
Last(S) == CHOOSE c \in S : \A d \in S : d <= c
First(S) == CHOOSE c \in S : \A d \in S : c <= d

\* C1: without options.before, every burst whose timer has fired has exactly
\* one producer invocation; that invocation got the arguments and receiver of
\* the last call of the burst; every caller of the burst holds that
\* invocation's outcome (pending while it runs, then its value or its error);
\* and the producer is invoked for nothing but a fired burst.
C1_BurstInvokesOnceWithLastArguments ==
    ~before =>
        /\ \A b \in DOMAIN bursts :
              bursts[b] = "fired" =>
                 /\ Cardinality(InvocationsOf(b)) = 1
                 /\ DelayedOf(b) = InvocationsOf(b)
                 /\ LET i == CHOOSE i \in InvocationsOf(b) : TRUE
                        last == Last(BurstCalls(b))
                    IN  /\ invocationsD[i].by = last
                        /\ invocationsD[i].args = callsD[last].args
                        /\ invocationsD[i].ctx = callsD[last].ctx
                        /\ \A c \in BurstCalls(b) : resultD[c] = OutcomeOfD(i)
        /\ \A i \in DOMAIN invocationsD : bursts[invocationsD[i].burst] = "fired"

\* C1 witness: a fired burst of at least two calls with different arguments
\* whose invocation has returned its value.
C1_Witness ==
    /\ ~before
    /\ \E b \in DOMAIN bursts :
          /\ bursts[b] = "fired"
          /\ Cardinality(BurstCalls(b)) >= 2
          /\ callsD[First(BurstCalls(b))].args # callsD[Last(BurstCalls(b))].args
          /\ \E i \in DelayedOf(b) : invocationsD[i].st = "value"

\* C2 (as claimed): without options.before, the step in which the signal
\* becomes aborted while callers wait rejects each of them with the abort
\* reason and leaves no timer pending, and once the signal is aborted no
\* producer invocation starts.
C2_AbortRejectsEveryWaiter ==
    [][ /\ (hasSignal /\ ~before /\ ~aborted /\ aborted' /\ promiseHandlers # <<>>) =>
             /\ \A c \in SeqToSet(promiseHandlers) : resultD'[c] = Rejected(AbortReason)
             /\ promiseHandlers' = <<>>
             /\ timers' = {}
             /\ timeout' = 0
        /\ (hasSignal /\ ~before /\ aborted) => Len(invocationsD') = Len(invocationsD)
      ]_vars

\* C3 (as claimed): with options.before, once the leading invocation of a
\* burst has returned its value, the leading caller holds that value, every
\* other caller of the burst that has settled (other than by an abort) holds
\* that value, and the burst has no second invocation.
C3_BurstSharesLeadingValue ==
    before =>
        \A i \in DOMAIN invocationsD :
            LET inv == invocationsD[i] IN
            /\ inv.kind = "leading"
            /\ inv.by = First(BurstCalls(inv.burst))
            /\ InvocationsOf(inv.burst) = {i}
            /\ inv.st = "value" =>
                 /\ resultD[inv.by] = Resolved(ValueOf(i))
                 /\ \A c \in BurstCalls(inv.burst) :
                       (resultD[c].st # "pending" /\ resultD[c] # Rejected(AbortReason))
                           => resultD[c] = Resolved(ValueOf(i))

\* No timer is pending, no producer invocation is running and every caller
\* has settled: every cycle begun has completed.
CyclesCompleteD ==
    /\ timers = {}
    /\ \A i \in DOMAIN invocationsD : invocationsD[i].st # "running"
    /\ \A c \in DOMAIN resultD : resultD[c].st # "pending"

\* C9 (as claimed, for the debouncer): when every cycle has completed, the
\* closure state is the initial one, and no caller ever holds the value of an
\* invocation made for another burst than its own.
C9_CompletedCycleLeavesInitialState ==
    /\ CyclesCompleteD =>
          /\ leadingValue = Undefined
          /\ timeout = 0
          /\ promiseHandlers = <<>>
    /\ \A c \in DOMAIN resultD :
          resultD[c].inv # 0 => invocationsD[resultD[c].inv].burst = callsD[c].burst

\* C10: a call made while the signal is aborted is rejected with the abort
\* reason in that step and changes neither the timer, the waiting callers,
\* the cached leading value nor the producer's invocations; and no producer
\* invocation is ever made with the arguments of a call that found the signal
\* aborted.
C10_AbortedCallTouchesNothing ==
    /\ [][ (hasSignal /\ aborted /\ Len(callsD') = Len(callsD) + 1) =>
             /\ resultD'[Len(callsD')] = Rejected(AbortReason)
             /\ UNCHANGED <<timeout, timers, promiseHandlers, leadingValue,
                            invocationsD, listener>>
         ]_vars
    /\ [](\A i \in DOMAIN invocationsD : ~callsD[invocationsD[i].by].sawAborted)

\* C10 witness: a call was rejected for the aborted signal while a timer was
\* pending and a leading value was cached.
C10_Witness ==
    /\ \E c \in DOMAIN callsD : callsD[c].path = "aborted"
    /\ timers # {}
    /\ timeout # 0


----------------------------------------------------------------------------
(* Properties of pDebounce.promise *)

\* What the promise of a caller attached to invocation i of the coalescer holds.
OutcomeOfP(i) ==
    IF invocationsP[i].st = "running" THEN Pending
    ELSE IF invocationsP[i].st = "value" THEN Resolved(ValueOf(i))
    ELSE Rejected(ErrorOf(i))

\* The calls that arrived while invocation j was outstanding.
ArrivedDuring(j) == {c \in DOMAIN callsP : callsP[c].during = j}

C5_QueuedCallsGetOneFollowUp ==
    after =>
        \A j \in DOMAIN invocationsP :
            LET Q == ArrivedDuring(j) IN
            Q # {} =>
               /\ \A c \in Q : callsP[c].path = "queued"
               /\ invocationsP[j].st = "running" =>
                     /\ queuedCall # <<>>
                     /\ \A c \in Q : /\ resultP[c] = Pending
                                     /\ c \in SeqToSet(queuedCall[1].resolvers)
               /\ invocationsP[j].st # "running" =>
                     /\ j + 1 \in DOMAIN invocationsP
                     /\ LET f == invocationsP[j + 1]
                            last == Last(Q)
                        IN  /\ f.kind = "queued"
                            /\ f.by = last
                            /\ f.ctxBy = last
                            /\ f.args = callsP[last].args
                            /\ f.ctx = callsP[last].ctx
                            /\ \A c \in Q : resultP[c] = OutcomeOfP(j + 1)
                     /\ \A i \in DOMAIN invocationsP :
                           (invocationsP[i].by \in Q \/ invocationsP[i].ctxBy \in Q) => i = j + 1

\* C5 witness: two calls with different arguments arrived during one
\* invocation and hold the value of the follow-up made with the later one's.
C5_Witness ==
    /\ after
    /\ \E j \in DOMAIN invocationsP :
          /\ Cardinality(ArrivedDuring(j)) >= 2
          /\ callsP[First(ArrivedDuring(j))].args # callsP[Last(ArrivedDuring(j))].args
          /\ j + 1 \in DOMAIN invocationsP
          /\ \A c \in ArrivedDuring(j) : resultP[c] = Resolved(ValueOf(j + 1))

\* Nothing is left to run: no producer invocation is outstanding, every chain
\* started has ended and its finally has run, every sharing caller has settled.
QuiescentP ==
    /\ Outstanding = {}
    /\ \A k \in DOMAIN chains : chains[k].finalised
    /\ shared = {}

\* C6 (as claimed): when nothing is left to run, every call has settled.
C6_EveryCallSettles ==
    QuiescentP => \A c \in DOMAIN resultP : resultP[c].st # "pending"

\* C7: at most one producer invocation is outstanding.
C7_AtMostOneOutstanding == Cardinality(Outstanding) <= 1

\* C7 witness: with options.after, a follow-up invocation is outstanding in
\* the drain loop while a further call is queued behind it.
C7_Witness ==
    /\ after
    /\ queuedCall # <<>>
    /\ \E i \in Outstanding : invocationsP[i].kind = "queued"

\* C8 (as claimed): with options.after, no call is queued while no current
\* promise is recorded.
C8_IdleHasNoQueuedCall ==
    after => (currentPromise = 0 => queuedCall = <<>>)


\* The callers attached to invocation i of the debouncer: the waiting callers
\* the timer callback captured, or the caller of the leading-edge call.
AttachedTo(i) ==
    IF invocationsD[i].kind = "delayed"
    THEN SeqToSet(invocationsD[i].handlers)
    ELSE {invocationsD[i].by}

\* C11: the callers attached to a producer invocation hold that invocation's
\* outcome whether or not the signal was aborted while it ran: they are
\* pending while it runs, then hold its value or its error, never the abort
\* reason.
C11_AbortLeavesStartedInvocationAlone ==
    \A i \in DOMAIN invocationsD :
        \A c \in AttachedTo(i) :
            /\ resultD[c] = OutcomeOfD(i)
            /\ resultD[c] # Rejected(AbortReason)

\* C11 witness: a call arrived while an invocation with attached callers was
\* running and was rejected by the abort of the signal, and after that the
\* invocation returned its value to its attached callers: the signal was
\* aborted, with onAbort registered, while the invocation ran.
C11_Witness ==
    \E i \in DOMAIN invocationsD :
        /\ invocationsD[i].st = "value"
        /\ AttachedTo(i) # {}
        /\ \A c \in AttachedTo(i) : resultD[c] = Resolved(ValueOf(i))
        /\ \E p, q \in DOMAIN settleLogD :
              /\ p < q
              /\ settleLogD[q] \in AttachedTo(i)
              /\ i \in callsD[settleLogD[p]].arrivedDuring
              /\ resultD[settleLogD[p]] = Rejected(AbortReason)


\* The producer invocations of the debouncer that failed: threw inside the
\* call, or returned a promise that rejected.
FailedD == {i \in DOMAIN invocationsD : invocationsD[i].st \in {"error", "threw"}}

\* C12: without options.before, when the invocation of a burst has failed it
\* is the burst's only invocation, every caller of the burst is rejected with
\* that invocation's error, and no caller of another burst holds it.
C12_FailureRejectsTheWholeBurst ==
    ~before =>
        \A i \in FailedD :
            LET b == invocationsD[i].burst IN
            /\ InvocationsOf(b) = {i}
            /\ \A c \in BurstCalls(b) : resultD[c] = Rejected(ErrorOf(i))
            /\ \A c \in DOMAIN callsD \ BurstCalls(b) : resultD[c].inv # i

\* C12 witness: a burst of two callers was rejected by its failed invocation
\* and a caller of another burst holds the value of that burst's invocation.
C12_Witness ==
    /\ ~before
    /\ \E i \in FailedD :
          /\ Cardinality(BurstCalls(invocationsD[i].burst)) >= 2
          /\ \A c \in BurstCalls(invocationsD[i].burst) : resultD[c] = Rejected(ErrorOf(i))
          /\ \E c \in DOMAIN callsD :
                /\ callsD[c].burst # invocationsD[i].burst
                /\ resultD[c].st = "resolved"
                /\ resultD[c].k = "value"


\* C13: without options.before, a call that arrives while a producer
\* invocation r is running belongs to another burst than r's and is not among
\* the callers r settles; while its burst is open the burst has a pending
\* timer scheduled by the burst's last call; it never holds r's outcome; and
\* once its burst's timer has fired it holds the outcome of that burst's own
\* invocation, which was made with the arguments of the burst's last call.
C13_CallsDuringExecutionFormNewBurst ==
    ~before =>
        \A c \in DOMAIN callsD :
            (callsD[c].path = "waiting" /\ callsD[c].arrivedDuring # {}) =>
                LET b == callsD[c].burst
                    last == Last(BurstCalls(b))
                IN  /\ \A r \in callsD[c].arrivedDuring :
                          /\ invocationsD[r].burst # b
                          /\ c \notin SeqToSet(invocationsD[r].handlers)
                          /\ resultD[c].inv # r
                    /\ bursts[b] = "open" =>
                          \E t \in timers : t.burst = b /\ t.id = last
                    /\ bursts[b] = "fired" =>
                          \E j \in DelayedOf(b) :
                              /\ j \notin callsD[c].arrivedDuring
                              /\ invocationsD[j].by = last
                              /\ invocationsD[j].args = callsD[last].args
                              /\ resultD[c] = OutcomeOfD(j)

\* C13 witness: two calls with different arguments arrived while an invocation
\* was running; that invocation failed, and both hold the value of a second
\* invocation.
C13_Witness ==
    /\ ~before
    /\ \E c, d \in DOMAIN callsD :
          /\ c < d
          /\ callsD[c].burst = callsD[d].burst
          /\ callsD[c].args # callsD[d].args
          /\ callsD[c].arrivedDuring # {}
          /\ callsD[d].arrivedDuring = callsD[c].arrivedDuring
          /\ \A r \in callsD[c].arrivedDuring : invocationsD[r].st = "error"
          /\ resultD[c].st = "resolved"
          /\ resultD[d] = resultD[c]


\* The producer invocations of the coalescer that failed.
FailedP == {i \in DOMAIN invocationsP : invocationsP[i].st \in {"error", "threw"}}

\* The first invocation of chain k: the one made for the starting call.
InitialOf(k) ==
    CHOOSE i \in DOMAIN invocationsP :
        invocationsP[i].chain = k /\ invocationsP[i].kind = "initial"

\* C14: with options.after, the caller that started a chain holds, once
\* settled, the outcome of the chain's first invocation, and nobody else
\* holds it; a follow-up invocation's outcome is held by exactly the waiters
\* it was run for; and a failed invocation during which calls arrived is
\* followed by the follow-up invocation for those calls.
C14_FailureStaysWithItsOwnCallers ==
    after =>
        /\ \A k \in DOMAIN chains :
              LET s == chains[k].starter
                  i0 == InitialOf(k)
              IN  /\ invocationsP[i0].by = s
                  /\ resultP[s].st # "pending" => resultP[s] = OutcomeOfP(i0)
                  /\ \A c \in DOMAIN callsP \ {s} : resultP[c].inv # i0
        /\ \A i \in DOMAIN invocationsP :
              invocationsP[i].kind = "queued" =>
                 /\ \A c \in SeqToSet(invocationsP[i].waiters) : resultP[c] = OutcomeOfP(i)
                 /\ \A c \in DOMAIN callsP :
                       resultP[c].inv = i => c \in SeqToSet(invocationsP[i].waiters)
        /\ \A j \in FailedP :
              ArrivedDuring(j) # {} =>
                 /\ j + 1 \in DOMAIN invocationsP
                 /\ invocationsP[j + 1].kind = "queued"
                 /\ ArrivedDuring(j) \subseteq SeqToSet(invocationsP[j + 1].waiters)

\* C14 witness: the first invocation of a chain failed and rejected its
\* starter, the follow-up queued during it ran and resolved its waiter, and
\* a second follow-up failed and rejected its own waiter.
C14_Witness ==
    /\ after
    /\ \E k \in DOMAIN chains :
          LET i0 == InitialOf(k) IN
          /\ invocationsP[i0].st = "error"
          /\ resultP[chains[k].starter] = Rejected(ErrorOf(i0))
          /\ i0 + 2 \in DOMAIN invocationsP
          /\ invocationsP[i0 + 1].st = "value"
          /\ invocationsP[i0 + 1].waiters # <<>>
          /\ \A c \in SeqToSet(invocationsP[i0 + 1].waiters) : resultP[c] = Resolved(ValueOf(i0 + 1))
          /\ invocationsP[i0 + 2].st = "error"
          /\ \A c \in SeqToSet(invocationsP[i0 + 2].waiters) : resultP[c] = Rejected(ErrorOf(i0 + 2))


\* The producer invocations made by the async function of chain k.
InvocationsOfChain(k) == {i \in DOMAIN invocationsP : invocationsP[i].chain = k}

\* C15 (as claimed): with options.after, the caller that started a chain has
\* settled by the time a follow-up invocation of its chain is running.
C15_StarterSettlesBeforeFollowUps ==
    after =>
        \A i \in Outstanding :
            invocationsP[i].kind = "queued" =>
                resultP[chains[invocationsP[i].chain].starter].st # "pending"

\* C15 (amended): with options.after, the caller that started a chain is
\* pending as long as any invocation of the chain, follow-ups included, is
\* outstanding; it settles when the finally of its call runs, after the drain
\* loop has ended, and then holds the outcome of the chain's first invocation.
C15_StarterSettlesAfterDrainLoop ==
    after =>
        \A k \in DOMAIN chains :
            LET s == chains[k].starter IN
            /\ (\E i \in InvocationsOfChain(k) : i \in Outstanding) => resultP[s] = Pending
            /\ resultP[s].st # "pending" <=> chains[k].finalised
            /\ resultP[s].st # "pending" =>
                  /\ chains[k].phase = "done"
                  /\ resultP[s] = OutcomeOfP(InitialOf(k))

\* C15 witness: a chain ran two follow-up invocations after its first one and
\* its starter then resolved with the first invocation's value.
C15_Witness ==
    /\ after
    /\ \E k \in DOMAIN chains :
          /\ Cardinality(InvocationsOfChain(k)) >= 3
          /\ resultP[chains[k].starter] = Resolved(ValueOf(InitialOf(k)))


\* C16: with a signal, whenever no timer is pending and no producer invocation
\* is running, onAbort is not registered on the signal.
C16_NoListenerWhenIdle ==
    (hasSignal /\ timers = {} /\ RunningD = {}) => ~listener

\* C16 witness: a burst of waiting callers, for which onAbort was registered,
\* has resolved with its invocation's value without the signal ever being
\* aborted, and nothing is pending or running.
C16_Witness ==
    /\ hasSignal /\ ~aborted /\ timers = {} /\ RunningD = {} /\ ~listener
    /\ \E i \in DOMAIN invocationsD :
          /\ invocationsD[i].kind = "delayed"
          /\ invocationsD[i].st = "value"
          /\ Len(invocationsD[i].handlers) >= 2
          /\ \A c \in SeqToSet(invocationsD[i].handlers) : resultD[c] = Resolved(ValueOf(i))


\* The producer invocations made with the arguments of call c.
OwnInvocations(c) == {i \in DOMAIN invocationsD : invocationsD[i].by = c}

C18_FailedLeadingResolvesFollowersUndefined ==
    before =>
        \A i \in FailedD :
            LET inv == invocationsD[i] IN
            /\ inv.kind = "leading"
            /\ resultD[inv.by] = Rejected(ErrorOf(i))
            /\ InvocationsOf(inv.burst) = {i}
            /\ \A c \in BurstCalls(inv.burst) \ {inv.by} :
                  (resultD[c].st # "pending" /\ resultD[c] # Rejected(AbortReason))
                      => resultD[c] = Resolved(Undefined)


----------------------------------------------------------------------------
(* Properties of the call of pDebounce *)

\* The windows that are finite Numbers.
FiniteWindows == {Window("number", "0"), Window("number", "-100"), Window("number", "1.5")}

\* C20: pDebounce throws exactly when wait is not a finite Number, and returns
\* a wrapped callable exactly when it is one (zero, negative or fractional);
\* where it threw there is no callable: no call, timer or producer invocation
\* ever exists.
C20_WaitValidatedAtWrapTime ==
    /\ wrapState = "threw" <=> (wrapState # "unwrapped" /\ wait \notin FiniteWindows)
    /\ wrapState = "wrapped" <=> (wrapState # "unwrapped" /\ wait \in FiniteWindows)
    /\ wrapState # "wrapped" => (callsD = <<>> /\ timers = {} /\ invocationsD = <<>>)

\* C20 witness: pDebounce threw for a window that is a Number, +Infinity.
C20_Witness == wrapState = "threw" /\ wait = Window("number", "Infinity")


\* The windows that are zero or negative.
NonPositiveWindows == {Window("number", "0"), Window("number", "-100")}

\* C21: without options.before and with a zero or negative window, a call
\* never invokes the producer in its own step: it only replaces the pending
\* timer by its own and leaves every waiting caller pending; so the calls made
\* before the timer callback runs form one burst, which gets exactly one
\* invocation, made by the timer callback with the arguments and receiver of
\* the last of them, and all of them hold its outcome.
C21_ZeroWindowStillCoalesces ==
    /\ [][ (~before /\ wait \in NonPositiveWindows /\ Len(callsD') = Len(callsD) + 1) =>
             /\ invocationsD' = invocationsD
             /\ \A c \in DOMAIN resultD : resultD'[c] = resultD[c]
             /\ ~aborted =>
                   /\ timers' = {Scheduled(Len(callsD'), callsD'[Len(callsD')].args,
                                           callsD'[Len(callsD')].ctx, callsD'[Len(callsD')].burst)}
                   /\ resultD'[Len(callsD')] = Pending
                   /\ timers # {} => callsD'[Len(callsD')].burst = callsD[Len(callsD)].burst
         ]_vars
    /\ [](( ~before /\ wait \in NonPositiveWindows) =>
             \A b \in DOMAIN bursts :
                 bursts[b] = "fired" =>
                    /\ Cardinality(InvocationsOf(b)) = 1
                    /\ \A i \in InvocationsOf(b) :
                          /\ invocationsD[i].kind = "delayed"
                          /\ invocationsD[i].by = Last(BurstCalls(b))
                          /\ invocationsD[i].args = callsD[Last(BurstCalls(b))].args
                          /\ invocationsD[i].ctx = callsD[Last(BurstCalls(b))].ctx
                          /\ \A c \in BurstCalls(b) : resultD[c] = OutcomeOfD(i))

\* C21 witness: with a window of zero, three calls with differing arguments
\* made before the timer callback ran hold the value of one invocation.
C21_Witness ==
    /\ ~before /\ wait = Window("number", "0")
    /\ \E b \in DOMAIN bursts :
          /\ bursts[b] = "fired"
          /\ Cardinality(BurstCalls(b)) = MaxCalls
          /\ callsD[First(BurstCalls(b))].args # callsD[Last(BurstCalls(b))].args
          /\ \E i \in InvocationsOf(b) :
                \A c \in BurstCalls(b) : resultD[c] = Resolved(ValueOf(i))


----------------------------------------------------------------------------
(* Properties of both components *)

\* The callers that returned the promise of chain k of the coalescer: the
\* call that started it and the calls that shared it.
HoldersOfChain(k) ==
    {c \in DOMAIN callsP : callsP[c].chain = k /\ callsP[c].path \in {"started", "shared"}}

\* C22: whether the producer threw inside the call or returned a promise
\* that rejected, a failed invocation rejects the callers attached to it
\* with its own error: at once those of a delayed, a leading or a follow-up
\* invocation, and those of a coalescer's first invocation as soon as they
\* settle; nobody else holds its error; an error is never held as a
\* resolution; and every call has returned a promise.
C22_ThrowIsRejection ==
    /\ Len(resultD) = Len(callsD) /\ Len(resultP) = Len(callsP)
    /\ \A i \in FailedD :
          /\ \A c \in AttachedTo(i) : resultD[c] = Rejected(ErrorOf(i))
          /\ \A c \in DOMAIN callsD \ AttachedTo(i) : resultD[c].inv # i
    /\ \A i \in FailedP :
          IF invocationsP[i].kind = "queued"
          THEN /\ \A c \in SeqToSet(invocationsP[i].waiters) : resultP[c] = Rejected(ErrorOf(i))
               /\ \A c \in DOMAIN callsP \ SeqToSet(invocationsP[i].waiters) : resultP[c].inv # i
          ELSE /\ \A c \in HoldersOfChain(invocationsP[i].chain) :
                     resultP[c] \in {Pending, Rejected(ErrorOf(i))}
               /\ \A c \in DOMAIN callsP \ HoldersOfChain(invocationsP[i].chain) :
                     resultP[c].inv # i
    /\ \A c \in DOMAIN resultD : resultD[c].k = "error" <=> resultD[c].st = "rejected" /\ resultD[c].k # "abort"
    /\ \A c \in DOMAIN resultP : resultP[c].k = "error" <=> resultP[c].st = "rejected"

\* C22 witness: with options.before, the producer threw inside a leading call,
\* whose promise is rejected with what it threw, and in another burst it
\* returned a promise that rejected, with the same effect on that leading
\* caller.
C22_Witness ==
    /\ before
    /\ \E i, j \in FailedD :
          /\ invocationsD[i].st = "threw" /\ invocationsD[j].st = "error"
          /\ resultD[invocationsD[i].by] = Rejected(ErrorOf(i))
          /\ resultD[invocationsD[j].by] = Rejected(ErrorOf(j))


\* C23: every producer invocation got the arguments and the receiver of one
\* call: of the last call of its burst when the timer callback made it, of the
\* first call of its burst when a leading call made it, of the starting call
\* for the first invocation of a coalescer's chain and of the latest call
\* queued for a follow-up invocation.
C23_ArgumentsAndContextOfOneCall ==
    /\ \A i \in DOMAIN invocationsD :
          LET inv == invocationsD[i] IN
          /\ inv.args = callsD[inv.by].args
          /\ inv.ctx = callsD[inv.by].ctx
          /\ callsD[inv.by].burst = inv.burst
          /\ inv.kind = "delayed" => inv.by = Last(BurstCalls(inv.burst))
          /\ inv.kind = "leading" => inv.by = First(BurstCalls(inv.burst))
    /\ \A i \in DOMAIN invocationsP :
          LET inv == invocationsP[i] IN
          /\ inv.ctxBy = inv.by
          /\ inv.args = callsP[inv.by].args
          /\ inv.ctx = callsP[inv.by].ctx
          /\ inv.kind = "initial" => inv.by = chains[inv.chain].starter
          /\ inv.kind = "queued" =>
                /\ inv.waiters # <<>>
                /\ inv.by = inv.waiters[Len(inv.waiters)]
                /\ \A c \in SeqToSet(inv.waiters) : c <= inv.by

\* C23 witness: a follow-up invocation was made for two queued calls with
\* different arguments and receivers, with those of the later one.
C23_Witness ==
    \E i \in DOMAIN invocationsP :
        /\ invocationsP[i].kind = "queued"
        /\ Len(invocationsP[i].waiters) >= 2
        /\ callsP[invocationsP[i].waiters[1]].args # invocationsP[i].args
        /\ callsP[invocationsP[i].waiters[1]].ctx # invocationsP[i].ctx


\* C24 (as claimed): a call of the coalescer made while no producer
\* invocation was outstanding has started an invocation of its own, with its
\* own arguments and receiver, and holds nothing but that invocation's
\* outcome.
C24_IdleCallStartsItsOwnInvocation ==
    \A c \in DOMAIN callsP :
        callsP[c].during = 0 =>
            \E i \in DOMAIN invocationsP :
                /\ invocationsP[i].kind = "initial"
                /\ invocationsP[i].by = c
                /\ invocationsP[i].args = callsP[c].args
                /\ invocationsP[i].ctx = callsP[c].ctx
                /\ resultP[c] \in {Pending, OutcomeOfP(i)}


\* C25 (as claimed): with options.after, the waiters of every follow-up
\* invocation are exactly the calls that arrived during the invocation made
\* just before it, which belongs to the same chain; a follow-up running or a
\* call queued means the chain's loop has not ended; and the invocations were
\* made in the order in which the calls whose arguments they got arrived.
C25_DrainLoopServesArrivalsInOrder ==
    after =>
        /\ \A i \in DOMAIN invocationsP :
              invocationsP[i].kind = "queued" =>
                 /\ i - 1 \in DOMAIN invocationsP
                 /\ invocationsP[i - 1].chain = invocationsP[i].chain
                 /\ SeqToSet(invocationsP[i].waiters) = ArrivedDuring(i - 1)
        /\ queuedCall # <<>> => Outstanding # {}
        /\ \A i, j \in DOMAIN invocationsP :
              i < j => invocationsP[i].by < invocationsP[j].by


----------------------------------------------------------------------------
(* Further properties of pDebounce *)

\* C26: with options.before, every producer invocation was made inside a call
\* that found no timer pending, never by the timer callback; every call that
\* found no timer pending and the signal not aborted made one; and there are
\* as many invocations as bursts opened, one for each.
C26_LeadingInvokesOncePerBurst ==
    before =>
        /\ \A i \in DOMAIN invocationsD :
              /\ invocationsD[i].kind = "leading"
              /\ ~callsD[invocationsD[i].by].timerPending
        /\ \A c \in DOMAIN callsD :
              (callsD[c].path # "aborted" /\ ~callsD[c].timerPending) <=> OwnInvocations(c) # {}
        /\ Len(invocationsD) = Len(bursts)
        /\ \A b \in DOMAIN bursts : Cardinality(InvocationsOf(b)) = 1

\* C26 witness: with options.before, three calls opened two bursts, both
\* timers have fired, and the producer was invoked twice.
C26_Witness ==
    /\ before
    /\ Len(callsD) = MaxCalls
    /\ Len(bursts) = MaxCalls - 1
    /\ \A b \in DOMAIN bursts : bursts[b] = "fired"
    /\ Len(invocationsD) = Len(bursts)
    /\ \A c \in DOMAIN callsD : callsD[c].path # "aborted"


\* Caller c, pending before the step, is settled by it.
SettledInStep(c) == c \in DOMAIN resultD /\ resultD[c] = Pending /\ resultD'[c] # Pending

\* The step runs a timer callback from its start: a live timer fires.
TimerCallbackStarts ==
    \E t \in timers : t \notin timers' /\ bursts[t.burst] = "open" /\ bursts'[t.burst] = "fired"

\* The step resumes, after its await, the timer callback that captured c.
TimerCallbackResumes(c) ==
    \E i \in RunningD :
        /\ invocationsD'[i].st # "running"
        /\ invocationsD[i].kind = "delayed"
        /\ c \in SeqToSet(invocationsD[i].handlers)

\* The step resumes, after its await, the leading-edge function of call c.
LeadingFunctionResumes(c) ==
    \E i \in RunningD :
        /\ invocationsD'[i].st # "running"
        /\ invocationsD[i].kind = "leading"
        /\ invocationsD[i].by = c

\* C27 (as claimed): no caller is settled in the step of its own call, and a
\* caller is settled only by a step that runs a timer callback, from its start
\* or after its await.
C27_SettlesOnlyInTimerCallback ==
    [][ /\ \A c \in DOMAIN resultD' \ DOMAIN resultD : resultD'[c] = Pending
        /\ \A c \in DOMAIN resultD :
              SettledInStep(c) => (TimerCallbackStarts \/ TimerCallbackResumes(c))
      ]_vars

\* C27 (amended): a call settles its own caller in its own step only by
\* rejecting it with the abort reason, when it finds the signal aborted, or
\* with what the producer threw inside a leading call; a waiting caller is
\* pending after its call and is settled later only by a timer callback that
\* had it among its handlers, from its start or after its await, or by onAbort
\* with the abort reason; a leading caller is settled later only by its own
\* leading-edge function when its producer invocation settles.
C27_SettlesOnlyWhereTheCodeSettles ==
    [][ /\ \A c \in DOMAIN resultD' \ DOMAIN resultD :
              /\ callsD'[c].path = "aborted" => resultD'[c] = Rejected(AbortReason)
              /\ callsD'[c].path = "waiting" => resultD'[c] = Pending
              /\ callsD'[c].path = "leading" =>
                    \/ resultD'[c] = Pending /\ c \in {invocationsD'[i].by : i \in RunningD'}
                    \/ \E i \in DOMAIN invocationsD' \ DOMAIN invocationsD :
                          /\ invocationsD'[i].st = "threw"
                          /\ invocationsD'[i].by = c
                          /\ resultD'[c] = Rejected(ErrorOf(i))
        /\ \A c \in DOMAIN resultD :
              SettledInStep(c) =>
                 IF callsD[c].path = "waiting"
                 THEN \/ TimerCallbackStarts /\ c \in SeqToSet(promiseHandlers)
                      \/ TimerCallbackResumes(c)
                      \/ /\ ~aborted /\ aborted' /\ listener
                         /\ c \in SeqToSet(promiseHandlers)
                         /\ resultD'[c] = Rejected(AbortReason)
                 ELSE callsD[c].path = "leading" /\ LeadingFunctionResumes(c)
      ]_vars

\* C27 witness: with options.before, a leading caller holds the value its
\* leading-edge function got, a waiting caller was resolved by the timer
\* callback, and a later call was rejected in its own step for the aborted
\* signal.
C27_Witness ==
    /\ before
    /\ \E c, d, e \in DOMAIN callsD :
          /\ callsD[c].path = "leading" /\ resultD[c].st = "resolved"
          /\ callsD[d].path = "waiting" /\ resultD[d].st = "resolved"
          /\ callsD[d].burst = callsD[c].burst
          /\ callsD[e].path = "aborted" /\ resultD[e] = Rejected(AbortReason)


\* C28: with options.before and a signal, the step in which the signal
\* becomes aborted while callers of a burst wait rejects each of them with the
\* abort reason, empties the waiting list and leaves no timer pending; it
\* starts no producer invocation and changes no leading caller's promise; and
\* a leading caller always holds the outcome of its own invocation, pending
\* while it runs, whether or not the signal was aborted meanwhile.
C28_AbortSparesTheLeadingCaller ==
    /\ [][ (before /\ hasSignal /\ ~aborted /\ aborted' /\ promiseHandlers # <<>>) =>
             /\ \A c \in SeqToSet(promiseHandlers) : resultD'[c] = Rejected(AbortReason)
             /\ promiseHandlers' = <<>>
             /\ timers' = {}
             /\ timeout' = 0
             /\ invocationsD' = invocationsD
             /\ \A c \in DOMAIN callsD : callsD[c].path = "leading" => resultD'[c] = resultD[c]
         ]_vars
    /\ []((before /\ hasSignal) =>
             \A i \in DOMAIN invocationsD : resultD[invocationsD[i].by] = OutcomeOfD(i))

\* C28 witness: with options.before, two callers waiting in a burst were
\* rejected by the abort while the burst's leading invocation was running,
\* and the leading caller was resolved with its value afterwards.
C28_Witness ==
    /\ before /\ aborted
    /\ \E i \in DOMAIN invocationsD :
          /\ resultD[invocationsD[i].by] = Resolved(ValueOf(i))
          /\ \E p, q, r \in DOMAIN settleLogD :
                /\ p < q /\ q < r
                /\ settleLogD[r] = invocationsD[i].by
                /\ \A w \in {settleLogD[p], settleLogD[q]} :
                      /\ callsD[w].burst = invocationsD[i].burst
                      /\ callsD[w].path = "waiting"
                      /\ resultD[w] = Rejected(AbortReason)


\* C29: when pending timers fire and producer invocations settle, every call
\* made is eventually settled, with or without a signal, aborted or not.
C29_EveryCallEventuallySettles ==
    \A c \in 1..MaxCalls :
        (c \in DOMAIN resultD) ~> (c \in DOMAIN resultD /\ resultD[c].st # "pending")

\* C29 witness: with a signal that was aborted, all the calls that could be
\* made have settled: one that waited was resolved, one that waited was
\* rejected by the abort.
C29_Witness ==
    /\ aborted
    /\ Len(callsD) = MaxCalls
    /\ \A c \in DOMAIN resultD : resultD[c].st # "pending"
    /\ \E c, d \in DOMAIN callsD :
          /\ callsD[c].path = "waiting" /\ resultD[c].st = "resolved"
          /\ callsD[d].path = "waiting" /\ resultD[d] = Rejected(AbortReason)


\* No element occurs twice in the sequence.
NoDuplicates(log) == Cardinality(SeqToSet(log)) = Len(log)

\* C30: in both components resolve or reject has been called at most once
\* on every caller, and exactly the settled callers have been settled that
\* way; the waiting list of the debouncer, the queued call's resolvers and the
\* waiters of a running follow-up invocation hold no caller twice and only
\* pending callers.
C30_EveryCallerSettledAtMostOnce ==
    /\ NoDuplicates(settleLogD)
    /\ SeqToSet(settleLogD) = {c \in DOMAIN resultD : resultD[c].st # "pending"}
    /\ NoDuplicates(promiseHandlers)
    /\ \A c \in SeqToSet(promiseHandlers) : resultD[c] = Pending
    /\ NoDuplicates(settleLogP)
    /\ SeqToSet(settleLogP) = {c \in DOMAIN resultP : resultP[c].st # "pending"}
    /\ queuedCall # <<>> =>
          /\ NoDuplicates(queuedCall[1].resolvers)
          /\ \A c \in SeqToSet(queuedCall[1].resolvers) : resultP[c] = Pending
    /\ \A i \in Outstanding :
          /\ NoDuplicates(invocationsP[i].waiters)
          /\ \A c \in SeqToSet(invocationsP[i].waiters) : resultP[c] = Pending

\* C30 witness: with options.after, all the calls that could be made have
\* been settled, each once, two of them by one follow-up invocation.
C30_Witness ==
    /\ after
    /\ Len(settleLogP) = MaxPromiseCalls
    /\ \E i \in DOMAIN invocationsP :
          /\ invocationsP[i].kind = "queued"
          /\ Len(invocationsP[i].waiters) >= 2
          /\ invocationsP[i].st # "running"


\* C31: at most one timer is live, and it is the one whose handle timeout
\* holds, scheduled by the last call of its burst; callers wait only while a
\* timer is pending, and without options.before a timer is pending only while
\* callers wait; a timer callback has run only for the last call of a burst
\* and never for a burst whose timer onAbort cleared.
C31_OneLiveTimer ==
    /\ Cardinality(timers) <= 1
    /\ \A t \in timers :
          /\ t.id = timeout
          /\ bursts[t.burst] = "open"
          /\ t.id = Last(BurstCalls(t.burst))
    /\ promiseHandlers # <<>> => timers # {}
    /\ (~before /\ timers # {}) => promiseHandlers # <<>>
    /\ \A i \in DOMAIN invocationsD :
          invocationsD[i].kind = "delayed" =>
             /\ invocationsD[i].by = Last(BurstCalls(invocationsD[i].burst))
             /\ bursts[invocationsD[i].burst] = "fired"
    /\ \A b \in DOMAIN bursts :
          bursts[b] = "aborted" =>
             /\ \A t \in timers : t.burst # b
             /\ \A i \in InvocationsOf(b) : invocationsD[i].kind = "leading"

\* C31 witness: without options.before, the timer of a burst of two calls,
\* the first one's replaced by the second one's, was cleared by onAbort: no
\* timer is live and the producer was never invoked for the burst.
C31_Witness ==
    /\ ~before /\ aborted /\ timers = {}
    /\ \E b \in DOMAIN bursts :
          /\ bursts[b] = "aborted"
          /\ Cardinality(BurstCalls(b)) >= 2
          /\ InvocationsOf(b) = {}


\* C32 (as claimed): with a signal that is not aborted, onAbort is registered
\* on the signal whenever callers wait.
C32_ListenerRegisteredWhileCallersWait ==
    (hasSignal /\ ~aborted /\ promiseHandlers # <<>>) => listener


\* The place of caller c in the order in which the callers were settled.
SettledAt(c) == CHOOSE p \in DOMAIN settleLogD : settleLogD[p] = c

\* C33: two waiting callers of one burst are settled together, with the same
\* outcome, the one that called first being settled first; and the step in
\* which the signal becomes aborted rejects every caller it settles with the
\* one abort reason, in the order of the waiting list.
C33_WaitersSettleInCallOrder ==
    /\ [](\A c, d \in DOMAIN callsD :
             (/\ c < d
              /\ callsD[c].path = "waiting" /\ callsD[d].path = "waiting"
              /\ callsD[c].burst = callsD[d].burst
              /\ (resultD[c].st # "pending" \/ resultD[d].st # "pending")) =>
                /\ resultD[c] = resultD[d]
                /\ resultD[c].st # "pending"
                /\ SettledAt(c) < SettledAt(d))
    /\ [][ (~aborted /\ aborted') =>
             /\ \A c \in DOMAIN resultD : SettledInStep(c) => resultD'[c] = Rejected(AbortReason)
             /\ settleLogD' = settleLogD \o
                   (IF \E c \in DOMAIN resultD : SettledInStep(c) THEN promiseHandlers ELSE <<>>)
         ]_vars

\* C33 witness: without options.before, the three callers of one burst were
\* rejected by one abort, in the order in which they had called.
C33_Witness ==
    /\ ~before
    /\ settleLogD = [k \in 1..MaxCalls |-> k]
    /\ \A c \in DOMAIN callsD :
          /\ callsD[c].burst = callsD[Len(callsD)].burst
          /\ callsD[c].path = "waiting"
          /\ resultD[c] = Rejected(AbortReason)

============================================================================
